---- MODULE Spec2Model ----
(***************************************************************************)
(* Model of the UVM assembler (uvm_assembler.py).                          *)
(*                                                                         *)
(* Text is modelled as a sequence of one-character strings, so that        *)
(* strip / split / upper / int(...) are computed the way Python computes   *)
(* them and not assumed.                                                   *)
(***************************************************************************)
EXTENDS Integers, Sequences, FiniteSets, TLC

(***************************************************************************)
(* Characters                                                              *)
(***************************************************************************)
LowerLetters ==
  <<"a","b","c","d","e","f","g","h","i","j","k","l","m",
    "n","o","p","q","r","s","t","u","v","w","x","y","z">>

UpperLetters ==
  <<"A","B","C","D","E","F","G","H","I","J","K","L","M",
    "N","O","P","Q","R","S","T","U","V","W","X","Y","Z">>

HexDigits ==
  <<"0","1","2","3","4","5","6","7","8","9","a","b","c","d","e","f">>

IndexOf(seq, c) ==
  IF \E i \in 1..Len(seq) : seq[i] = c
    THEN CHOOSE i \in 1..Len(seq) : seq[i] = c
    ELSE 0

\* str.upper() on one character
UpperChar(c) ==
  IF IndexOf(LowerLetters, c) > 0 THEN UpperLetters[IndexOf(LowerLetters, c)] ELSE c

\* str.lower() on one character
LowerChar(c) ==
  IF IndexOf(UpperLetters, c) > 0 THEN LowerLetters[IndexOf(UpperLetters, c)] ELSE c

Upper(s) == [i \in 1..Len(s) |-> UpperChar(s[i])]

Lower(s) == [i \in 1..Len(s) |-> LowerChar(s[i])]

\* the characters str.strip() and str.split() treat as whitespace
IsSpace(c) == c \in {" ", "\t", "\n"}

RECURSIVE LStrip(_)
LStrip(s) ==
  IF s # <<>> /\ IsSpace(Head(s)) THEN LStrip(Tail(s)) ELSE s

RECURSIVE RStrip(_)
RStrip(s) ==
  IF s # <<>> /\ IsSpace(s[Len(s)]) THEN RStrip(SubSeq(s, 1, Len(s) - 1)) ELSE s

\* str.strip()
Strip(s) == RStrip(LStrip(s))

\* length of the leading run of non-whitespace characters
RECURSIVE WordLen(_)
WordLen(s) ==
  IF s = <<>> \/ IsSpace(Head(s)) THEN 0 ELSE 1 + WordLen(Tail(s))

\* str.split() with no argument: split on runs of whitespace
RECURSIVE Split(_)
Split(s) ==
  LET t == LStrip(s) IN
    IF t = <<>> THEN <<>>
    ELSE <<SubSeq(t, 1, WordLen(t))>> \o Split(SubSeq(t, WordLen(t) + 1, Len(t)))

(***************************************************************************)
(* int(text, base)                                                         *)
(***************************************************************************)
\* the result of a conversion that raised ValueError
ValueError == [ok |-> FALSE, value |-> 0]

IntValue(v) == [ok |-> TRUE, value |-> v]

DigitVal(c) == IndexOf(HexDigits, LowerChar(c)) - 1

IsDigit(c, base) == DigitVal(c) >= 0 /\ DigitVal(c) < base

\* digits with single underscores allowed between them
RECURSIVE DigitsOK(_, _)
DigitsOK(s, base) ==
  /\ s # <<>>
  /\ IsDigit(Head(s), base)
  /\ \/ Len(s) = 1
     \/ /\ s[2] = "_"
        /\ DigitsOK(SubSeq(s, 3, Len(s)), base)
     \/ /\ s[2] # "_"
        /\ DigitsOK(Tail(s), base)

RECURSIVE DigitsValue(_, _, _)
DigitsValue(s, base, acc) ==
  IF s = <<>> THEN acc
  ELSE IF Head(s) = "_" THEN DigitsValue(Tail(s), base, acc)
  ELSE DigitsValue(Tail(s), base, acc * base + DigitVal(Head(s)))

HasSign(s) == s # <<>> /\ Head(s) \in {"+", "-"}

HasHexPrefix(s) == Len(s) >= 2 /\ s[1] = "0" /\ s[2] \in {"x", "X"}

\* Python's int(s, base) for base 10 and 16: optional sign, for base 16 an
\* optional 0x prefix (which may be followed by one underscore), then digits.
IntParse(s, base) ==
  LET body   == IF HasSign(s) THEN Tail(s) ELSE s
      unpref == IF base = 16 /\ HasHexPrefix(body)
                  THEN (IF Len(body) >= 3 /\ body[3] = "_"
                          THEN SubSeq(body, 4, Len(body))
                          ELSE SubSeq(body, 3, Len(body)))
                  ELSE body
      mag    == DigitsValue(unpref, base, 0)
  IN IF ~DigitsOK(unpref, base) THEN ValueError
     ELSE IF HasSign(s) /\ Head(s) = "-" THEN IntValue(0 - mag)
     ELSE IntValue(mag)

(***************************************************************************)
(* Instruction                                                             *)
(***************************************************************************)
OPCODE_LOAD == 102

OPCODE_READ == 155

OPCODE_WRITE == 49

OPCODE_XOR == 136

Instruction(opcode, operand) == [opcode |-> opcode, operand |-> operand]

\* x >> n for a non-negative x
Shr(x, n) == x \div (2 ^ n)

\* x & 0xFF for a non-negative x
And255(x) == x % 256

\* encode with the last shift off by one byte
encode_Shift24(instr) ==
  LET byte0 == And255(instr.opcode)
      byte1 == And255(Shr(instr.operand, 0))
      byte2 == And255(Shr(instr.operand, 8))
      byte3 == And255(Shr(instr.operand, 24))
  IN <<byte0, byte1, byte2, byte3>>

\* Instruction.encode
encode(instr) ==
  LET byte0 == And255(instr.opcode)
      byte1 == And255(Shr(instr.operand, 0))
      byte2 == And255(Shr(instr.operand, 8))
      byte3 == And255(Shr(instr.operand, 16))
  IN <<byte0, byte1, byte2, byte3>>

\* the decoder used by the test script
decode(chunk) ==
  [opcode  |-> chunk[1],
   operand |-> chunk[2] + chunk[3] * (2 ^ 8) + chunk[4] * (2 ^ 16)]

(***************************************************************************)
(* UVMAssembler: per-line parsing                                          *)
(***************************************************************************)
MNEMONICS ==
  (<<"L","O","A","D">> :> OPCODE_LOAD) @@
  (<<"R","E","A","D">> :> OPCODE_READ) @@
  (<<"W","R","I","T","E">> :> OPCODE_WRITE) @@
  (<<"X","O","R">> :> OPCODE_XOR)

MaxOperand == 8388607

\* UVMAssembler._parse_operand: the integer, or ValueError
_parse_operand(operand_str) ==
  LET s1 == Strip(operand_str)
      s2 == IF s1 # <<>> /\ s1[Len(s1)] = "," THEN SubSeq(s1, 1, Len(s1) - 1) ELSE s1
  IN IF HasHexPrefix(Lower(s2)) THEN IntParse(s2, 16) ELSE IntParse(s2, 10)

\* range check with the upper end excluded
OperandInRange_Exclusive(operand) == 0 <= operand /\ operand < MaxOperand

\* range check against the full 24 bits of the operand field
OperandInRange_24Bit(operand) == 0 <= operand /\ operand <= 16777215

OperandInRange(operand) == 0 <= operand /\ operand <= MaxOperand

\* _parse_instruction with the mnemonic looked up before the operand is parsed
_parse_instruction_MnemonicFirst(mnemonic, tokens) ==
  IF mnemonic \notin DOMAIN MNEMONICS
    THEN [kind |-> "UnknownMnemonic", mnemonic |-> mnemonic]
  ELSE IF Len(tokens) < 2
    THEN [kind |-> "MissingOperand", mnemonic |-> mnemonic]
  ELSE LET parsed_op == _parse_operand(tokens[2])
           operand   == parsed_op.value IN
    IF ~parsed_op.ok
      THEN [kind |-> "InvalidOperandFormat", token |-> tokens[2]]
    ELSE IF ~OperandInRange(operand)
      THEN [kind |-> "OperandOutOfRange", operand |-> operand]
    ELSE [kind |-> "ok", instr |-> Instruction(MNEMONICS[mnemonic], operand)]

\* UVMAssembler._parse_instruction: the Instruction, or the AssemblyException
_parse_instruction(mnemonic, tokens) ==
  IF Len(tokens) < 2
    THEN [kind |-> "MissingOperand", mnemonic |-> mnemonic]
  ELSE LET parsed  == _parse_operand(tokens[2])
           operand == parsed.value IN
    IF ~parsed.ok
      THEN [kind |-> "InvalidOperandFormat", token |-> tokens[2]]
    ELSE IF ~OperandInRange(operand)
      THEN [kind |-> "OperandOutOfRange", operand |-> operand]
    ELSE IF mnemonic \notin DOMAIN MNEMONICS
      THEN [kind |-> "UnknownMnemonic", mnemonic |-> mnemonic]
    ELSE [kind |-> "ok", instr |-> Instruction(MNEMONICS[mnemonic], operand)]

\* the body of one iteration of the loop of UVMAssembler._parse_assembly:
\* "skip" for a blank line, otherwise the result of _parse_instruction
parse_line(line) ==
  LET stripped == Strip(line)
      tokens   == Split(stripped)
  IN IF stripped = <<>> THEN [kind |-> "skip"]
     ELSE IF tokens = <<>> THEN [kind |-> "skip"]
     ELSE _parse_instruction(Upper(tokens[1]), tokens)

\* b''.join(instr.encode() for instr in instructions)
RECURSIVE JoinEncoded(_)
JoinEncoded(instrs) ==
  IF instrs = <<>> THEN <<>> ELSE encode(Head(instrs)) \o JoinEncoded(Tail(instrs))

\* UVMAssembler._generate_machine_code: the value stored in self.binary_data
_generate_machine_code(instrs) == JoinEncoded(instrs)

\* UVMAssembler._write_binary_file: the content of the file after the call
_write_binary_file(instrs) == JoinEncoded(instrs)

\* a rendering that consumes the instruction list while printing it
_print_internal_representation_Consuming(instrs) ==
  [instructions |-> <<>>,
   printed      |-> [i \in 1..Len(instrs) |->
                       [index   |-> i,
                        opcode  |-> instrs[i].opcode,
                        operand |-> instrs[i].operand,
                        binary  |-> encode(instrs[i])]]]

\* UVMAssembler._print_internal_representation: what is printed, and the
\* instruction list after the call
_print_internal_representation(instrs) ==
  [instructions |-> instrs,
   printed      |-> [i \in 1..Len(instrs) |->
                       [index   |-> i,
                        opcode  |-> instrs[i].opcode,
                        operand |-> instrs[i].operand,
                        binary  |-> encode(instrs[i])]]]

\* f.readlines(): the text cut after every newline, the newline kept
RECURSIVE ReadLines(_, _)
ReadLines(text, cur) ==
  IF text = <<>> THEN (IF cur = <<>> THEN <<>> ELSE <<cur>>)
  ELSE IF Head(text) = "\n" THEN <<cur \o <<"\n">> >> \o ReadLines(Tail(text), <<>>)
  ELSE ReadLines(Tail(text), cur \o <<Head(text)>>)

(***************************************************************************)
(* Inputs                                                                  *)
(***************************************************************************)
\* the number of lines of a source text
MaxLines == 2

\* the number of calls of assemble
MaxRuns == 2

\* lines a source text is made of
SourceLines ==
  { <<"r","e","a","d"," "," ","0","x","1","2","3","4","5","6",",">>,
    <<" ","\t">>,
    <<"F","O","O"," ","5">>,
    <<"X","O","R"," ","8","3","8","8","6","0","8">> }

RECURSIVE JoinLines(_)
JoinLines(ls) ==
  IF ls = <<>> THEN <<>> ELSE Head(ls) \o <<"\n">> \o JoinLines(Tail(ls))

SourceTexts ==
  { JoinLines(ls) : ls \in UNION { [1..n -> SourceLines] : n \in 0..MaxLines } }

File(content) == [exists |-> TRUE, content |-> content]

\* a path at which there is no file
NoFile == [exists |-> FALSE, content |-> <<>>]

Inputs == {File(t) : t \in SourceTexts} \cup {NoFile}

\* an attribute that has not been assigned yet
Unset == [set |-> FALSE, value |-> <<>>]

Value(v) == [set |-> TRUE, value |-> v]

\* no exception
None == [kind |-> "None"]

(***************************************************************************)
(* State                                                                   *)
(***************************************************************************)
VARIABLES
  test_mode,          \* self.test_mode
  instructions,       \* self.instructions
  binary_data,        \* self.binary_data (Unset until _generate_machine_code)
  out_file,           \* content of the output file, or NoFile
  stdout,             \* what the current call of assemble has printed
  pc,                 \* position inside assemble
  input,              \* content of the input file of the current call
  lines,              \* local `lines` of assemble
  line_num,           \* loop variable of _parse_assembly
  error,              \* the exception the current call raised, or None
  runs,               \* number of calls of assemble so far
  call_instructions,  \* self.instructions when the current call began
  call_file,          \* the output file when the current call began
  line,               \* unit checks: a source line
  parsed,             \* unit checks: what parsing `line` gave
  instr,              \* unit checks: an Instruction
  encoded,            \* unit checks: instr.encode()
  decoded             \* unit checks: the decoding of `encoded`

asm_vars == <<test_mode, instructions, binary_data, out_file, stdout, pc, input,
              lines, line_num, error, runs, call_instructions, call_file>>

unit_vars == <<line, parsed, instr, encoded, decoded>>

vars == <<asm_vars, unit_vars>>

Pending == [kind |-> "pending"]

NoInstr == Instruction(0, 0)

UnitIdle ==
  /\ line = <<>>
  /\ parsed = Pending
  /\ instr = NoInstr
  /\ encoded = <<>>
  /\ decoded = NoInstr

\* UVMAssembler.__init__, on a file system without the output file
Constructed(tm) ==
  /\ test_mode = tm
  /\ instructions = <<>>
  /\ binary_data = Unset
  /\ out_file = NoFile
  /\ stdout = <<>>
  /\ pc = "idle"
  /\ input = NoFile
  /\ lines = <<>>
  /\ line_num = 0
  /\ error = None
  /\ runs = 0
  /\ call_instructions = <<>>
  /\ call_file = NoFile

Init ==
  /\ \E tm \in BOOLEAN : Constructed(tm)
  /\ UnitIdle

Returned == pc \in {"idle", "done", "failed"}

\* UVMAssembler(test_mode): a new assembler object; the files stay
Construct(tm) ==
  /\ Returned
  /\ test_mode' = tm
  /\ instructions' = <<>>
  /\ binary_data' = Unset
  /\ pc' = "idle"
  /\ stdout' = <<>>
  /\ input' = NoFile
  /\ lines' = <<>>
  /\ line_num' = 0
  /\ error' = None
  /\ call_instructions' = <<>>
  /\ call_file' = out_file
  /\ UNCHANGED <<out_file, runs>>
  /\ UNCHANGED unit_vars

\* assemble opening (and so truncating) the output file before it parses
AssembleOpen_TruncatesOutput(src) ==
  /\ Returned
  /\ runs < MaxRuns
  /\ runs' = runs + 1
  /\ input' = src
  /\ stdout' = <<>>
  /\ call_instructions' = instructions
  /\ call_file' = out_file
  /\ line_num' = 0
  /\ IF ~src.exists
       THEN /\ error' = [kind |-> "FileNotFound"]
            /\ pc' = "failed"
            /\ lines' = <<>>
            /\ out_file' = out_file
       ELSE /\ error' = None
            /\ pc' = "parse"
            /\ lines' = ReadLines(src.content, <<>>)
            /\ out_file' = File(<<>>)
  /\ UNCHANGED <<test_mode, instructions, binary_data>>
  /\ UNCHANGED unit_vars

\* assemble, stage 1: read the source file
AssembleOpen(src) ==
  /\ Returned
  /\ runs < MaxRuns
  /\ runs' = runs + 1
  /\ input' = src
  /\ stdout' = <<>>
  /\ call_instructions' = instructions
  /\ call_file' = out_file
  /\ line_num' = 0
  /\ IF ~src.exists
       THEN /\ error' = [kind |-> "FileNotFound"]
            /\ pc' = "failed"
            /\ lines' = <<>>
       ELSE /\ error' = None
            /\ pc' = "parse"
            /\ lines' = ReadLines(src.content, <<>>)
  /\ UNCHANGED <<test_mode, instructions, binary_data, out_file>>
  /\ UNCHANGED unit_vars

\* the loop of _parse_assembly numbering the lines from 0
ParseLine_ZeroIndexed ==
  /\ pc = "parse"
  /\ line_num < Len(lines)
  /\ line_num' = line_num + 1
  /\ LET r == parse_line(lines[line_num + 1]) IN
       CASE r.kind = "skip" ->
              UNCHANGED <<instructions, error, pc>>
         [] r.kind = "ok" ->
              /\ instructions' = Append(instructions, r.instr)
              /\ UNCHANGED <<error, pc>>
         [] OTHER ->
              /\ error' = [kind |-> "AssemblyException", line |-> line_num, cause |-> r]
              /\ pc' = "failed"
              /\ UNCHANGED instructions
  /\ UNCHANGED <<test_mode, binary_data, out_file, stdout, input, lines, runs,
                 call_instructions, call_file>>
  /\ UNCHANGED unit_vars

\* _parse_assembly: one iteration of the loop over enumerate(lines, start=1)
ParseLine ==
  /\ pc = "parse"
  /\ line_num < Len(lines)
  /\ line_num' = line_num + 1
  /\ LET r == parse_line(lines[line_num + 1]) IN
       CASE r.kind = "skip" ->
              UNCHANGED <<instructions, error, pc>>
         [] r.kind = "ok" ->
              /\ instructions' = Append(instructions, r.instr)
              /\ UNCHANGED <<error, pc>>
         [] OTHER ->
              /\ error' = [kind |-> "AssemblyException", line |-> line_num + 1, cause |-> r]
              /\ pc' = "failed"
              /\ UNCHANGED instructions
  /\ UNCHANGED <<test_mode, binary_data, out_file, stdout, input, lines, runs,
                 call_instructions, call_file>>
  /\ UNCHANGED unit_vars

\* _parse_assembly returns; assemble, stage 3: _generate_machine_code
GenerateMachineCode ==
  /\ pc = "parse"
  /\ line_num = Len(lines)
  /\ binary_data' = Value(_generate_machine_code(instructions))
  /\ pc' = IF test_mode THEN "print" ELSE "write"
  /\ UNCHANGED <<test_mode, instructions, out_file, stdout, input, lines, line_num,
                 error, runs, call_instructions, call_file>>
  /\ UNCHANGED unit_vars

\* assemble, stage 4: _print_internal_representation (test mode only)
PrintInternalRepresentation ==
  /\ pc = "print"
  /\ LET r == _print_internal_representation(instructions) IN
       /\ instructions' = r.instructions
       /\ stdout' = stdout \o r.printed
  /\ pc' = "write"
  /\ UNCHANGED <<test_mode, binary_data, out_file, input, lines, line_num,
                 error, runs, call_instructions, call_file>>
  /\ UNCHANGED unit_vars

\* assemble, stage 5: _write_binary_file
WriteBinaryFile ==
  /\ pc = "write"
  /\ out_file' = File(_write_binary_file(instructions))
  /\ pc' = "summary"
  /\ UNCHANGED <<test_mode, instructions, binary_data, stdout, input, lines, line_num,
                 error, runs, call_instructions, call_file>>
  /\ UNCHANGED unit_vars

\* assemble, stage 6: _print_summary
PrintSummary ==
  /\ pc = "summary"
  /\ stdout' = Append(stdout, [file_size         |-> Len(binary_data.value),
                               instruction_count |-> Len(instructions),
                               warning           |-> Len(binary_data.value) # Len(instructions) * 4])
  /\ pc' = "done"
  /\ UNCHANGED <<test_mode, instructions, binary_data, out_file, input, lines, line_num,
                 error, runs, call_instructions, call_file>>
  /\ UNCHANGED unit_vars

Next ==
  \/ \E tm \in BOOLEAN : Construct(tm)
  \/ \E src \in Inputs : AssembleOpen(src)
  \/ ParseLine
  \/ GenerateMachineCode
  \/ PrintInternalRepresentation
  \/ WriteBinaryFile
  \/ PrintSummary

Spec == Init /\ [][Next]_vars

(***************************************************************************)
(* Unit checks of the line parser: one line, parsed once                   *)
(***************************************************************************)
EdgeWidth == 3

RECURSIVE DecimalDigits(_)
DecimalDigits(n) ==
  IF n < 10 THEN <<HexDigits[n + 1]>>
  ELSE DecimalDigits(n \div 10) \o <<HexDigits[(n % 10) + 1]>>

\* str(v)
Decimal(v) == IF v < 0 THEN <<"-">> \o DecimalDigits(0 - v) ELSE DecimalDigits(v)

RECURSIVE HexDigitsOf(_)
HexDigitsOf(n) ==
  IF n < 16 THEN <<HexDigits[n + 1]>>
  ELSE HexDigitsOf(n \div 16) \o <<HexDigits[(n % 16) + 1]>>

\* hex(v) for v >= 0
Hex(v) == <<"0", "x">> \o HexDigitsOf(v)

\* integers around the two ends of the operand range, and one far above it
IntSamples ==
  ((0 - EdgeWidth)..EdgeWidth) \cup ((MaxOperand - EdgeWidth)..(MaxOperand + EdgeWidth))
    \cup {99999999}

KnownMnemonicTexts ==
  { <<"L","O","A","D">>, <<"l","o","a","d">>, <<"R","e","a","d">>,
    <<"W","R","I","T","E">>, <<"x","o","r">> }

UnknownMnemonicTexts == { <<"F","O","O">>, <<"L","O","A","D","S">> }

\* operand tokens that are not the plain rendering of an integer
OtherOperandTexts ==
  { <<"a","b","c">>, <<"0","x">>, <<"0","x","G">>, <<"-","0","x","5">>, <<"5",",">>,
    <<"5",",",",">>, <<"+","5">>, <<"1","_","0">>, <<"1","_","_","0">>, <<"_","1">>,
    <<"0","X","7","f","F","f","F","f">>, <<"0","x","_","1","0">>, <<"1","2","a">>,
    <<",">>, <<"5",".","0">> }

OperandTexts ==
  {Decimal(v) : v \in IntSamples} \cup {Hex(v) : v \in {v \in IntSamples : v >= 0}}
    \cup OtherOperandTexts

LineInputs ==
  { m \o <<" ">> \o o : m \in KnownMnemonicTexts \cup UnknownMnemonicTexts, o \in OperandTexts }
    \cup (KnownMnemonicTexts \cup UnknownMnemonicTexts)
    \cup { <<>>, <<"\n">>, <<" ", "\t", "\n">>,
           <<" ", "L","O","A","D", "\t", " ", "9","8", " ", "\n">>,
           <<"L","O","A","D", " ", "9","8", " ", "j","u","n","k">>,
           <<"L","O","A","D", " ", "a","b","c", " ", "5">> }

LineInit ==
  /\ Constructed(FALSE)
  /\ line \in LineInputs
  /\ parsed = Pending
  /\ instr = NoInstr
  /\ encoded = <<>>
  /\ decoded = NoInstr

\* lines 75-87 of _parse_assembly applied to `line`
ParseOneLine ==
  /\ parsed = Pending
  /\ parsed' = parse_line(line)
  /\ UNCHANGED <<line, instr, encoded, decoded>>
  /\ UNCHANGED asm_vars

LineNext == ParseOneLine

LineSpec == LineInit /\ [][LineNext]_vars

(***************************************************************************)
(* Unit checks of the encoder: one Instruction, encoded and decoded        *)
(***************************************************************************)
Opcodes == {OPCODE_LOAD, OPCODE_READ, OPCODE_WRITE, OPCODE_XOR}

\* operands around every byte boundary of the 23-bit range
OperandSamples ==
  { v \in UNION { (b - EdgeWidth)..(b + EdgeWidth) : b \in {0, 255, 65535, 8388607} } :
      OperandInRange(v) }
    \cup {98, 531, 198, 306, 4660, 1193046}

EncodeInit ==
  /\ Constructed(FALSE)
  /\ line = <<>>
  /\ parsed = Pending
  /\ instr \in {Instruction(op, v) : op \in Opcodes, v \in OperandSamples}
  /\ encoded = <<>>
  /\ decoded = NoInstr

EncodeStep ==
  /\ encoded = <<>>
  /\ encoded' = encode(instr)
  /\ UNCHANGED <<line, parsed, instr, decoded>>
  /\ UNCHANGED asm_vars

\* the decoding the test script applies to each 4-byte chunk of the file
DecodeStep ==
  /\ encoded # <<>>
  /\ decoded = NoInstr
  /\ decoded' = decode(encoded)
  /\ UNCHANGED <<line, parsed, instr, encoded>>
  /\ UNCHANGED asm_vars

EncodeNext == EncodeStep \/ DecodeStep

EncodeSpec == EncodeInit /\ [][EncodeNext]_vars

(***************************************************************************)
(* Properties                                                              *)
(***************************************************************************)
IsBlank(l) == Strip(l) = <<>>

NonBlankLines(ls) == SelectSeq(ls, LAMBDA l : ~IsBlank(l))

\* the record a valid line stands for: the opcode of its uppercased mnemonic,
\* then its operand in little-endian order
ExpectedRecord(l) ==
  LET tokens == Split(Strip(l))
      v      == _parse_operand(tokens[2]).value
  IN <<MNEMONICS[Upper(tokens[1])], v % 256, (v \div 256) % 256, (v \div 65536) % 256>>

LineIsValid(l) == parse_line(l).kind \in {"skip", "ok"}

\* C1: a successful run writes exactly 4*N bytes, N the number of non-blank
\* lines of the source
C1_SizeIs4N ==
  pc = "done" => Len(out_file.content) = 4 * Len(NonBlankLines(lines))

\* C2: after a successful run the k-th 4-byte record of the output is the
\* encoding of the k-th non-blank source line, with nothing between records
C2_RecordsInSourceOrder ==
  pc = "done" =>
    LET nb == NonBlankLines(lines) IN
      /\ Len(out_file.content) = 4 * Len(nb)
      /\ \A k \in 1..Len(nb) :
           SubSeq(out_file.content, 4 * k - 3, 4 * k) = ExpectedRecord(nb[k])

\* C3: decoding the 4 bytes that encode produced for a valid Instruction gives
\* back its opcode and operand
C3_RoundTrip ==
  (encoded # <<>> /\ decoded # NoInstr) =>
    /\ Len(encoded) = 4
    /\ decoded.opcode = instr.opcode
    /\ decoded.operand = instr.operand

C3_Witness ==
  /\ instr = Instruction(OPCODE_XOR, 8388607)
  /\ encoded = <<136, 255, 255, 127>>
  /\ decoded = instr

\* C4: a run that fails (source not found, or a parse error on any line) leaves
\* the output file as it was when the run began: not created, not modified
C4_NoOutputOnFailure ==
  pc = "failed" => out_file = call_file

C4_Witness ==
  /\ pc = "failed"
  /\ error.kind = "AssemblyException"
  /\ error.line = 2
  /\ Len(instructions) > Len(call_instructions)
  /\ call_file.exists
  /\ call_file.content # <<>>
  /\ out_file = call_file

\* what a call of assemble leaves behind, as a function of the state the call
\* began in and of the input file alone
RECURSIVE ParseFrom(_, _, _)
ParseFrom(ls, n, acc) ==
  IF n > Len(ls) THEN [error |-> None, instructions |-> acc]
  ELSE LET r == parse_line(ls[n]) IN
    IF r.kind = "skip" THEN ParseFrom(ls, n + 1, acc)
    ELSE IF r.kind = "ok" THEN ParseFrom(ls, n + 1, Append(acc, r.instr))
    ELSE [error        |-> [kind |-> "AssemblyException", line |-> n, cause |-> r],
          instructions |-> acc]

RunOutcome(instrs0, file0, in) ==
  IF ~in.exists
    THEN [error |-> [kind |-> "FileNotFound"], instructions |-> instrs0, out_file |-> file0]
    ELSE LET r == ParseFrom(ReadLines(in.content, <<>>), 1, instrs0) IN
      [error        |-> r.error,
       instructions |-> r.instructions,
       out_file     |-> IF r.error.kind = "None"
                          THEN File(JoinEncoded(r.instructions)) ELSE file0]

\* C5: the bytes a successful run writes depend only on its source text: they
\* are the bytes a new assembler writes for that source, whatever calls were
\* made on the object before
C5_BytesDependOnSourceOnly ==
  pc = "done" => out_file = RunOutcome(<<>>, NoFile, input).out_file

\* C6: a line with a known mnemonic and an integer operand v, written in
\* decimal or in hexadecimal, is accepted if and only if 0 <= v <= 8388607, and
\* is rejected with OperandOutOfRange otherwise
C6_AcceptedIffInRange ==
  \A m \in KnownMnemonicTexts, v \in IntSamples :
    (/\ parsed # Pending
     /\ \/ line = m \o <<" ">> \o Decimal(v)
        \/ (v >= 0 /\ line = m \o <<" ">> \o Hex(v)))
    => IF 0 <= v /\ v <= 8388607
         THEN parsed.kind = "ok" /\ parsed.instr.operand = v
         ELSE parsed.kind = "OperandOutOfRange" /\ parsed.operand = v

C6_Witness ==
  /\ line = <<"L","O","A","D"," ","8","3","8","8","6","0","8">>
  /\ parsed.kind = "OperandOutOfRange"
  /\ parsed.operand = 8388608

\* C7: the outcome of a call (the error raised, the instruction list, the
\* bytes of the output file) is the same with test_mode set and unset
C7_TestModeSameOutcome ==
  pc \in {"done", "failed"} =>
    [error |-> error, instructions |-> instructions, out_file |-> out_file]
      = RunOutcome(call_instructions, call_file, input)

C7_Witness ==
  /\ pc = "done"
  /\ test_mode
  /\ Len(stdout) = Len(instructions) + 1
  /\ Len(instructions) = 2
  /\ out_file.content = JoinEncoded(instructions)

\* C8: within one line the checks run in the order missing operand, operand
\* format, operand range, mnemonic validity, and the first failing one is the
\* error of the line
C8_CheckOrder ==
  (parsed # Pending /\ parsed.kind # "skip") =>
    LET tokens == Split(Strip(line))
        op     == _parse_operand(tokens[2])
    IN /\ (parsed.kind = "MissingOperand") = (Len(tokens) < 2)
       /\ (parsed.kind = "InvalidOperandFormat") = (Len(tokens) >= 2 /\ ~op.ok)
       /\ (parsed.kind = "OperandOutOfRange")
            = (Len(tokens) >= 2 /\ op.ok /\ ~(0 <= op.value /\ op.value <= 8388607))
       /\ (parsed.kind = "UnknownMnemonic")
            = (/\ Len(tokens) >= 2 /\ op.ok /\ 0 <= op.value /\ op.value <= 8388607
               /\ Upper(tokens[1]) \notin DOMAIN MNEMONICS)
       /\ (line = <<"F","O","O">>) => parsed.kind = "MissingOperand"
       /\ (line = <<"F","O","O"," ","a","b","c">>) => parsed.kind = "InvalidOperandFormat"
       /\ (line = <<"F","O","O"," ","-","1">>) => parsed.kind = "OperandOutOfRange"
       /\ (line = <<"F","O","O"," ","5">>) => parsed.kind = "UnknownMnemonic"

C8_Witness ==
  /\ line = <<"F","O","O"," ","-","1">>
  /\ parsed.kind = "OperandOutOfRange"

\* C9: a parse that fails reports the earliest invalid line, with that line's
\* error and its 1-indexed number in the source text (blank lines counted);
\* no later line is parsed; a source with an invalid line never gets past
\* the parse
C9_FirstErrorOnly ==
  /\ (pc = "failed" /\ error.kind = "AssemblyException") =>
       /\ error.line \in 1..Len(lines)
       /\ ~LineIsValid(lines[error.line])
       /\ \A i \in 1..(error.line - 1) : LineIsValid(lines[i])
       /\ error.cause = parse_line(lines[error.line])
       /\ line_num = error.line
       /\ Len(instructions) - Len(call_instructions)
            = Len(NonBlankLines(SubSeq(lines, 1, error.line - 1)))
  /\ (pc \in {"print", "write", "summary", "done"}) =>
       \A i \in 1..Len(lines) : LineIsValid(lines[i])

C9_Witness ==
  /\ pc = "failed"
  /\ Len(lines) = 2
  /\ error.kind = "AssemblyException"
  /\ error.line = 1
  /\ error.cause.kind = "UnknownMnemonic"
  /\ parse_line(lines[2]).kind = "OperandOutOfRange"

RECURSIVE HighBitsClear(_)
HighBitsClear(bytes) ==
  \/ bytes = <<>>
  \/ /\ Len(bytes) >= 4
     /\ bytes[4] < 128
     /\ HighBitsClear(SubSeq(bytes, 5, Len(bytes)))

\* C10: in every state every Instruction in the instruction list has one of
\* the four opcodes and an operand in 0..8388607, and the high bit of byte 3
\* of every emitted record is 0
C10_InstructionsValid ==
  /\ \A i \in 1..Len(instructions) :
       /\ instructions[i].opcode \in {102, 155, 49, 136}
       /\ 0 <= instructions[i].operand
       /\ instructions[i].operand <= 8388607
  /\ HighBitsClear(binary_data.value)
  /\ HighBitsClear(out_file.content)

C10_Witness ==
  /\ pc = "failed"
  /\ error.kind = "AssemblyException"
  /\ Len(instructions) = 3
  /\ out_file.exists
  /\ Len(out_file.content) = 8

====
